---- MODULE Spec2Model ----
(***************************************************************************)
(* ProgressHandler.emit (src/ProgressHandler.py): a logging StreamHandler  *)
(* that keeps consecutive messages on one line and rewinds the cursor over *)
(* a message that is to be overwritten.  emit is modelled statement by     *)
(* statement; the program counter of a thread is the source line it is     *)
(* about to execute.                                                       *)
(***************************************************************************)
EXTENDS Integers, Sequences, FiniteSets, TLC

\* ------------------------------------------------------------------ bounds
MaxRawLen == 2
\* longest content the terminal line holds before the calls that are observed
MaxCol == 2

\* --------------------------------------------------------------- alphabet
Threads == {1, 2}

\* self.terminator of logging.StreamHandler, and '%c' % curses.ascii.BS
Terminator == <<"NL">>
BSChar == "BS"

\* value of an 'extra' attribute of a record; Absent: the attribute is not set
Absent == "absent"
AttrValues == {Absent, "true", "false"}

RECURSIVE Repeat(_, _)
Repeat(c, n) == IF n = 0 THEN <<>> ELSE <<c>> \o Repeat(c, n - 1)

RawBodies == {Repeat("a", n) : n \in 0..MaxRawLen}
Prefixes == {<<>>, <<"p">>}

\* a LogRecord: the message body, the context the formatter puts in front
\* of it, and the two optional 'extra' attributes
Records == [msg : RawBodies, prefix : Prefixes,
            same_line : AttrValues, overwrite : AttrValues]

NoRecord == [msg |-> <<>>, prefix |-> <<>>, same_line |-> Absent, overwrite |-> Absent]

\* record.getMessage()
GetMessage(r) == r.msg

\* self.format(record): context information followed by the message
Format(r) == r.prefix \o GetMessage(r)

\* the value of the attribute is tested, not its presence
HasTruthyAttr(r, name) == r[name] = "true"

\* hasattr(record, name)
HasAttr(r, name) == r[name] # Absent

\* SystemExit is left to the bare except clause
OnlyKeyboardInterrupt == {"KeyboardInterrupt"}

\* line 63: the exceptions that are raised again
Interrupts == {"KeyboardInterrupt", "SystemExit"}
\* exceptions a failing step can raise
Failures == {"OSError", "KeyboardInterrupt", "SystemExit"}

\* the lines of emit that call out of the handler and can raise
RaisingLines == {"L30", "L38", "L46", "L50", "L60", "L62"}

VARIABLES
  on_same_line,   \* self.on_same_line
  overwriting,    \* self.overwriting
  out,            \* characters received by self.stream since the calls in progress began
  pc,             \* per thread: line of emit about to run, "idle" outside emit, "wait" before the mutex
  record,         \* per thread: the record argument
  msg,            \* per thread: local msg
  same_line,      \* per thread: local same_line
  overwrite,      \* per thread: local overwrite
  call,           \* per thread: what the current (or last) call of emit did
  prev,           \* the call of emit before the current one, when it returned normally
  lock,           \* holder of the external mutex, 0 when free
  useMutex,       \* callers guard emit with the external mutex
  tail,           \* the last character self.stream received and the kind of the last write
  cls,            \* the attributes of class ProgressHandler (lines 26-27)
  other           \* a second ProgressHandler instance: whether it exists, and its __dict__

vars == <<on_same_line, overwriting, out, pc, record, msg, same_line, overwrite,
          call, prev, lock, useMutex, tail, cls, other>>

\* bookkeeping of one call: the state at entry, the last character the stream
\* had received at entry ("" when none), the stream operations in order
\* (source line and characters; line 62 is the flush), the exception raised,
\* the number of handleError calls and how the call ended
NoCall == [rec |-> NoRecord, osl0 |-> FALSE, ow0 |-> FALSE, last0 |-> "", ops |-> <<>>,
           exc |-> "none", handled |-> 0, outcome |-> "none"]

NewCall(r) == [rec |-> r, osl0 |-> on_same_line, ow0 |-> overwriting,
               last0 |-> tail.char, ops |-> <<>>,
               exc |-> "none", handled |-> 0, outcome |-> "running"]

\* what is remembered of a call once the next one begins: the requests, the
\* message body and the stream operations of a call that ran to its end
NoPrev == [same_line |-> FALSE, overwrite |-> FALSE, raw |-> <<>>, ops |-> <<>>,
           outcome |-> "none"]

Summary(c) ==
  IF c.outcome = "returned" /\ c.exc = "none"
  THEN [same_line |-> HasAttr(c.rec, "same_line"), overwrite |-> HasAttr(c.rec, "overwrite"),
        raw |-> GetMessage(c.rec), ops |-> c.ops, outcome |-> "completed"]
  ELSE [NoPrev EXCEPT !.outcome = IF c.outcome = "none" THEN "none" ELSE "failed"]

Op(line, s) == [line |-> line, s |-> s]

RECURSIVE Flat(_)
Flat(ops) == IF ops = <<>> THEN <<>> ELSE Head(ops).s \o Flat(Tail(ops))

\* stream.write(s) at the given line by thread t
StreamWrite(t, line, s) ==
  /\ out' = out \o s
  /\ call' = [call EXCEPT ![t].ops = Append(@, Op(line, s))]
  /\ tail' = [char |-> IF s = <<>> THEN tail.char ELSE s[Len(s)],
              kind |-> IF s = Terminator THEN "terminator" ELSE "text"]

Goto(t, l) == pc' = [pc EXCEPT ![t] = l]

\* nothing written yet
NoTail == [char |-> "", kind |-> "none"]

\* lines 26-27: the class attributes; an instance without an attribute of its
\* own reads the attribute of the class
ClassDefaults == [on_same_line |-> FALSE, overwriting |-> FALSE]

\* the empty __dict__ of a new instance
NoAttrs == [n \in {} |-> FALSE]

NoOther == [alive |-> FALSE, dict |-> NoAttrs]

\* ------------------------------------------------------------------ Init
Init ==
  /\ on_same_line = FALSE
  /\ overwriting = FALSE
  /\ out = <<>>
  /\ pc = [t \in Threads |-> "idle"]
  /\ record = [t \in Threads |-> NoRecord]
  /\ msg = [t \in Threads |-> <<>>]
  /\ same_line = [t \in Threads |-> FALSE]
  /\ overwrite = [t \in Threads |-> FALSE]
  /\ call = [t \in Threads |-> NoCall]
  /\ prev = NoPrev
  /\ lock = 0
  /\ useMutex = FALSE
  /\ tail = NoTail
  /\ cls = ClassDefaults
  /\ other = NoOther

\* --------------------------------------------------------------- actions
\* line 28: emit(self, record) is entered
Emit(t, r) ==
  /\ pc[t] = "idle"
  /\ Goto(t, "L30")
  /\ record' = [record EXCEPT ![t] = r]
  /\ prev' = Summary(call[t])
  /\ call' = [call EXCEPT ![t] = NewCall(r)]
  /\ out' = <<>>
  /\ UNCHANGED <<on_same_line, overwriting, msg, same_line, overwrite, lock, useMutex,
                 tail, cls, other>>

\* lines 30-33: msg = self.format(record); the two hasattr tests
L30(t) ==
  /\ pc[t] = "L30"
  /\ msg' = [msg EXCEPT ![t] = Format(record[t])]
  /\ same_line' = [same_line EXCEPT ![t] = HasAttr(record[t], "same_line")]
  /\ overwrite' = [overwrite EXCEPT ![t] = HasAttr(record[t], "overwrite")]
  /\ Goto(t, "L37")
  /\ UNCHANGED <<on_same_line, overwriting, out, record, call, prev, lock, useMutex,
                 tail, cls, other>>

\* the call's same_line request is not consulted
L37IgnoresSameLine(t) ==
  /\ pc[t] = "L37"
  /\ Goto(t, IF on_same_line THEN "L37b" ELSE "L42")
  /\ UNCHANGED <<on_same_line, overwriting, out, record, msg, same_line, overwrite,
                 call, prev, lock, useMutex,
                 tail, cls, other>>

\* line 37, first operand: self.on_same_line and not (same_line or ...)
L37(t) ==
  /\ pc[t] = "L37"
  /\ Goto(t, IF on_same_line /\ ~same_line[t] THEN "L37b" ELSE "L42")
  /\ UNCHANGED <<on_same_line, overwriting, out, record, msg, same_line, overwrite,
                 call, prev, lock, useMutex,
                 tail, cls, other>>

\* self.overwriting is not consulted
L37bIgnoresOverwriting(t) ==
  /\ pc[t] = "L37b"
  /\ Goto(t, "L38")
  /\ UNCHANGED <<on_same_line, overwriting, out, record, msg, same_line, overwrite,
                 call, prev, lock, useMutex,
                 tail, cls, other>>

\* the call's overwrite request is consulted instead of self.overwriting
L37bUsesRequest(t) ==
  /\ pc[t] = "L37b"
  /\ Goto(t, IF ~overwrite[t] THEN "L38" ELSE "L42")
  /\ UNCHANGED <<on_same_line, overwriting, out, record, msg, same_line, overwrite,
                 call, prev, lock, useMutex,
                 tail, cls, other>>

\* line 37, last operand: ... or self.overwriting
L37b(t) ==
  /\ pc[t] = "L37b"
  /\ Goto(t, IF ~overwriting THEN "L38" ELSE "L42")
  /\ UNCHANGED <<on_same_line, overwriting, out, record, msg, same_line, overwrite,
                 call, prev, lock, useMutex,
                 tail, cls, other>>

\* line 38: stream.write(self.terminator)
L38(t) ==
  /\ pc[t] = "L38"
  /\ StreamWrite(t, 38, Terminator)
  /\ Goto(t, "L42")
  /\ UNCHANGED <<on_same_line, overwriting, record, msg, same_line, overwrite,
                 prev, lock, useMutex,
                 cls, other>>

\* the context information is never dropped
SelectFormatted(osl, formatted, raw) == formatted

\* lines 42-43: text selection
SelectText(osl, formatted, raw) == IF osl THEN raw ELSE formatted

L42(t) ==
  /\ pc[t] = "L42"
  /\ msg' = [msg EXCEPT ![t] = SelectText(on_same_line, @, GetMessage(record[t]))]
  /\ Goto(t, "L46")
  /\ UNCHANGED <<on_same_line, overwriting, out, record, same_line, overwrite,
                 call, prev, lock, useMutex,
                 tail, cls, other>>

\* line 46: stream.write(msg); line 49: if overwrite
L46(t) ==
  /\ pc[t] = "L46"
  /\ StreamWrite(t, 46, msg[t])
  /\ Goto(t, IF overwrite[t] THEN "L50" ELSE "L53")
  /\ UNCHANGED <<on_same_line, overwriting, record, msg, same_line, overwrite,
                 prev, lock, useMutex,
                 cls, other>>

\* one backspace too few
RewindShort(r) ==
  Repeat(BSChar, IF Len(GetMessage(r)) > 0 THEN Len(GetMessage(r)) - 1 ELSE 0)

\* rewinding over the formatted string instead of the message body
RewindFormatted(r) == Repeat(BSChar, Len(Format(r)))

\* line 50: ('%c' % curses.ascii.BS) * len(record.getMessage())
Rewind(r) == Repeat(BSChar, Len(GetMessage(r)))

L50(t) ==
  /\ pc[t] = "L50"
  /\ StreamWrite(t, 50, Rewind(record[t]))
  /\ Goto(t, "L51")
  /\ UNCHANGED <<on_same_line, overwriting, record, msg, same_line, overwrite,
                 prev, lock, useMutex,
                 cls, other>>

\* the overwrite request does not keep the line open
StaysOnLineSameLineOnly(sl, ow) == sl

\* line 56: if same_line or overwrite
StaysOnLine(sl, ow) == sl \/ ow

\* line 51: self.overwriting = True
L51(t) ==
  /\ pc[t] = "L51"
  /\ overwriting' = TRUE
  /\ Goto(t, IF StaysOnLine(same_line[t], overwrite[t]) THEN "L57" ELSE "L60")
  /\ UNCHANGED <<on_same_line, out, record, msg, same_line, overwrite,
                 call, prev, lock, useMutex,
                 tail, cls, other>>

\* the else branch does not clear overwriting
L53NoReset(t) ==
  /\ pc[t] = "L53"
  /\ Goto(t, IF StaysOnLine(same_line[t], overwrite[t]) THEN "L57" ELSE "L60")
  /\ UNCHANGED <<on_same_line, overwriting, out, record, msg, same_line, overwrite,
                 call, prev, lock, useMutex,
                 tail, cls, other>>

\* line 53: self.overwriting = False
L53(t) ==
  /\ pc[t] = "L53"
  /\ overwriting' = FALSE
  /\ Goto(t, IF StaysOnLine(same_line[t], overwrite[t]) THEN "L57" ELSE "L60")
  /\ UNCHANGED <<on_same_line, out, record, msg, same_line, overwrite,
                 call, prev, lock, useMutex,
                 tail, cls, other>>

\* the line is kept open but on_same_line is not set
L57NoSet(t) ==
  /\ pc[t] = "L57"
  /\ Goto(t, "L62")
  /\ UNCHANGED <<on_same_line, overwriting, out, record, msg, same_line, overwrite,
                 call, prev, lock, useMutex, tail, cls, other>>

\* the attribute is assigned on the class instead of the instance, which
\* then reads it from the class
L57OnClass(t) ==
  /\ pc[t] = "L57"
  /\ on_same_line' = TRUE
  /\ cls' = [cls EXCEPT !.on_same_line = TRUE]
  /\ Goto(t, "L62")
  /\ UNCHANGED <<overwriting, out, record, msg, same_line, overwrite,
                 call, prev, lock, useMutex, tail, other>>

\* line 57: self.on_same_line = True
L57(t) ==
  /\ pc[t] = "L57"
  /\ on_same_line' = TRUE
  /\ Goto(t, "L62")
  /\ UNCHANGED <<overwriting, out, record, msg, same_line, overwrite,
                 call, prev, lock, useMutex,
                 tail, cls, other>>

\* line 60: stream.write(self.terminator)
L60(t) ==
  /\ pc[t] = "L60"
  /\ StreamWrite(t, 60, Terminator)
  /\ Goto(t, "L61")
  /\ UNCHANGED <<on_same_line, overwriting, record, msg, same_line, overwrite,
                 prev, lock, useMutex,
                 cls, other>>

\* the line is ended but on_same_line is not reset
L61NoReset(t) ==
  /\ pc[t] = "L61"
  /\ Goto(t, "L62")
  /\ UNCHANGED <<on_same_line, overwriting, out, record, msg, same_line, overwrite,
                 call, prev, lock, useMutex,
                 tail, cls, other>>

\* line 61: self.on_same_line = False
L61(t) ==
  /\ pc[t] = "L61"
  /\ on_same_line' = FALSE
  /\ Goto(t, "L62")
  /\ UNCHANGED <<overwriting, out, record, msg, same_line, overwrite,
                 call, prev, lock, useMutex,
                 tail, cls, other>>

\* line 62: self.flush(), then emit returns
L62(t) ==
  /\ pc[t] = "L62"
  /\ call' = [call EXCEPT ![t].ops = Append(@, Op(62, <<>>)), ![t].outcome = "returned"]
  /\ Goto(t, "idle")
  /\ UNCHANGED <<on_same_line, overwriting, out, record, msg, same_line, overwrite,
                 prev, lock, useMutex,
                 tail, cls, other>>

\* the call made at line 30, 38, 46, 50, 60 or 62 raises e instead of returning;
\* nothing reaches the stream and control passes to the except clauses
Raise(t, e) ==
  /\ pc[t] \in RaisingLines
  /\ call' = [call EXCEPT ![t].exc = e]
  /\ Goto(t, "L63")
  /\ UNCHANGED <<on_same_line, overwriting, out, record, msg, same_line, overwrite,
                 prev, lock, useMutex,
                 tail, cls, other>>

\* lines 63-64: except (KeyboardInterrupt, SystemExit): raise
L63(t) ==
  /\ pc[t] = "L63"
  /\ call[t].exc \in Interrupts
  /\ call' = [call EXCEPT ![t].outcome = "raised"]
  /\ Goto(t, "idle")
  /\ UNCHANGED <<on_same_line, overwriting, out, record, msg, same_line, overwrite,
                 prev, lock, useMutex,
                 tail, cls, other>>

\* the stream is flushed on the error path as well
L65Flushes(t) ==
  /\ pc[t] = "L63"
  /\ call[t].exc \notin Interrupts
  /\ call' = [call EXCEPT ![t].handled = @ + 1, ![t].outcome = "returned",
                          ![t].ops = Append(@, Op(62, <<>>))]
  /\ Goto(t, "idle")
  /\ UNCHANGED <<on_same_line, overwriting, out, record, msg, same_line, overwrite,
                 prev, lock, useMutex, tail, cls, other>>

\* lines 65-66: except: self.handleError(record), then emit returns
L65(t) ==
  /\ pc[t] = "L63"
  /\ call[t].exc \notin Interrupts
  /\ call' = [call EXCEPT ![t].handled = @ + 1, ![t].outcome = "returned"]
  /\ Goto(t, "idle")
  /\ UNCHANGED <<on_same_line, overwriting, out, record, msg, same_line, overwrite,
                 prev, lock, useMutex,
                 tail, cls, other>>

\* one statement of emit in thread t
Step(t) ==
  \/ L30(t) \/ L37(t) \/ L37b(t) \/ L38(t) \/ L42(t) \/ L46(t) \/ L50(t)
  \/ L51(t) \/ L53(t) \/ L57(t) \/ L60(t) \/ L61(t) \/ L62(t)

\* ------------------------------------------- single-threaded specification
Next ==
  \/ \E r \in Records : Emit(1, r)
  \/ Step(1)
  \/ \E e \in Failures : Raise(1, e)
  \/ L63(1)
  \/ L65(1)

Spec == Init /\ [][Next]_vars

\* ------------------------------------------------ two concurrent callers
\* the records the two threads log: each thread has its own characters
ThreadChar(t) == IF t = 1 THEN "a" ELSE "b"
ThreadPrefix(t) == IF t = 1 THEN <<"p">> ELSE <<"q">>
ConcRecords(t) == [msg : {Repeat(ThreadChar(t), n) : n \in 0..MaxRawLen},
                   prefix : {ThreadPrefix(t)},
                   same_line : {Absent, "true"}, overwrite : {Absent, "true"}]

\* a fresh handler and two threads that each call emit once, either directly
\* or both under the mutex
InitConc ==
  /\ on_same_line = FALSE
  /\ overwriting = FALSE
  /\ out = <<>>
  /\ useMutex \in BOOLEAN
  /\ record \in [Threads -> Records \cup ConcRecords(1) \cup ConcRecords(2)]
  /\ \A t \in Threads : record[t] \in ConcRecords(t)
  /\ pc = [t \in Threads |-> IF useMutex THEN "wait" ELSE "L30"]
  /\ msg = [t \in Threads |-> <<>>]
  /\ same_line = [t \in Threads |-> FALSE]
  /\ overwrite = [t \in Threads |-> FALSE]
  /\ tail = NoTail
  /\ call = [t \in Threads |-> NewCall(record[t])]
  /\ prev = NoPrev
  /\ lock = 0
  /\ cls = ClassDefaults
  /\ other = NoOther

\* the caller takes the mutex and enters emit
Acquire(t) ==
  /\ pc[t] = "wait"
  /\ lock = 0
  /\ lock' = t
  /\ call' = [call EXCEPT ![t] = NewCall(record[t])]
  /\ Goto(t, "L30")
  /\ UNCHANGED <<on_same_line, overwriting, out, record, msg, same_line, overwrite,
                 prev, useMutex,
                 tail, cls, other>>

\* emit has returned and the caller gives the mutex back
Release(t) ==
  /\ pc[t] = "idle"
  /\ lock = t
  /\ lock' = 0
  /\ UNCHANGED <<on_same_line, overwriting, out, pc, record, msg, same_line, overwrite,
                 call, prev, useMutex,
                 tail, cls, other>>

NextConc ==
  \E t \in Threads : Acquire(t) \/ Release(t) \/ Step(t)

SpecConc == InitConc /\ [][NextConc]_vars

\* lines 28-62 as one uninterrupted call that does not raise: the stream and
\* the two fields after emit(r), from stream and fields st
SerialEmit(st, r) ==
  LET sl == HasAttr(r, "same_line")
      ow == HasAttr(r, "overwrite")
      lead == IF st.on_same_line /\ ~(sl \/ st.overwriting) THEN Terminator ELSE <<>>
      text == IF st.on_same_line THEN GetMessage(r) ELSE Format(r)
      back == IF ow THEN Repeat(BSChar, Len(GetMessage(r))) ELSE <<>>
      trail == IF sl \/ ow THEN <<>> ELSE Terminator
  IN [out |-> st.out \o lead \o text \o back \o trail,
      on_same_line |-> (sl \/ ow),
      overwriting |-> ow]

\* --------------------------------------------------- a second instance
\* attribute lookup on an instance with __dict__ d: the instance's own
\* attribute if it has one, else the attribute of the class
Lookup(d, name) == IF name \in DOMAIN d THEN d[name] ELSE cls[name]

\* ProgressHandler() : a second handler is constructed (again)
NewInstance ==
  /\ pc[1] = "idle"
  /\ other' = [alive |-> TRUE, dict |-> NoAttrs]
  /\ UNCHANGED <<on_same_line, overwriting, out, pc, record, msg, same_line, overwrite,
                 call, prev, lock, useMutex, tail, cls>>

\* lines 28-62 on the second handler, as one call that does not raise: lines
\* 51/53 and 57/61 assign both attributes on that instance
EmitOther(r) ==
  /\ pc[1] = "idle"
  /\ other.alive
  /\ LET st == [out |-> <<>>,
                on_same_line |-> Lookup(other.dict, "on_same_line"),
                overwriting |-> Lookup(other.dict, "overwriting")]
         res == SerialEmit(st, r)
     IN other' = [alive |-> TRUE,
                  dict |-> [on_same_line |-> res.on_same_line,
                            overwriting |-> res.overwriting]]
  /\ UNCHANGED <<on_same_line, overwriting, out, pc, record, msg, same_line, overwrite,
                 call, prev, lock, useMutex, tail, cls>>

\* the records logged through the first handler when a second one exists
InstRecords == {r \in Records : r.prefix = <<"p">> /\ r.same_line # "false"
                                 /\ r.overwrite # "false"}

NextInst ==
  \/ \E r \in InstRecords : Emit(1, r)
  \/ Step(1)
  \/ \E e \in Failures : Raise(1, e)
  \/ L63(1)
  \/ L65(1)
  \/ NewInstance
  \/ \E r \in ConcRecords(2) : EmitOther(r)

SpecInst == Init /\ [][NextInst]_vars

\* ------------------------------------------------------------ observation
\* the call of emit the single thread is in, or was last in
cur == call[1]

Idle == pc[1] = "idle"

\* the call ran to its end: no step raised
Completed(c) == c.outcome = "returned" /\ c.exc = "none"

ReqSameLine(c) == HasAttr(c.rec, "same_line")
ReqOverwrite(c) == HasAttr(c.rec, "overwrite")

\* the stream writes of a call, in order (the flush left out)
Writes(ops) == SelectSeq(ops, LAMBDA o : o.line # 62)

\* position of the message text among the operations of a call, 0 if not written
TextAt(ops) == IF \E i \in DOMAIN ops : ops[i].line = 46
               THEN CHOOSE i \in DOMAIN ops : ops[i].line = 46 ELSE 0

WroteText(ops) == TextAt(ops) # 0

\* the operations of a call from its message text on
FromText(ops) == SubSeq(ops, TextAt(ops), Len(ops))

CountOf(c, s) == Cardinality({i \in DOMAIN s : s[i] = c})

\* ------------------------------------------------------------------ claims
\* C1: a completed emit call that requests overwrite writes exactly
\* len(raw body) backspace characters, as the write right after its message
\* text, whatever the length of the formatted string and whichever of the
\* formatted string and the raw body was the text written.
C1_BackspaceCount ==
  (Idle /\ Completed(cur) /\ ReqOverwrite(cur)) =>
    LET ops == cur.ops
        i == TextAt(ops)
        n == Len(GetMessage(cur.rec))
    IN /\ i # 0
       /\ i < Len(ops)
       /\ ops[i + 1].s = Repeat("BS", n)
       /\ CountOf("BS", Flat(ops)) = n
       /\ CountOf("BS", out) = n

C1_Witness ==
  /\ Idle /\ Completed(cur) /\ ReqOverwrite(cur)
  /\ ~cur.osl0
  /\ Len(GetMessage(cur.rec)) = 2
  /\ Len(Format(cur.rec)) = 3
  /\ out = <<"p", "a", "a", "BS", "BS">>

\* C2: a completed emit call with neither same_line nor overwrite requested
\* ends its stream writes with one line terminator and leaves
\* on_same_line = false and overwriting = false; entered with on_same_line
\* false (the initial state) it writes exactly formatted string + terminator.
C2_PlainEndsLine ==
  (Idle /\ Completed(cur) /\ ~ReqSameLine(cur) /\ ~ReqOverwrite(cur)) =>
    LET w == Writes(cur.ops)
    IN /\ Len(w) >= 2
       /\ w[Len(w)].s = <<"NL">>
       /\ w[Len(w) - 1].line = 46
       /\ on_same_line = FALSE
       /\ overwriting = FALSE
       /\ (~cur.osl0 => out = Format(cur.rec) \o <<"NL">>)

C2_Witness ==
  /\ Idle /\ Completed(cur) /\ ~ReqSameLine(cur) /\ ~ReqOverwrite(cur)
  /\ prev.outcome = "none"
  /\ out = <<"p", "a", "a", "NL">>
  /\ ~on_same_line /\ ~overwriting

\* C3: when a completed emit call requesting overwrite is immediately followed
\* by a completed call requesting neither same_line nor overwrite, the second
\* call writes no terminator before its text and exactly one after it: the
\* stream receives text1 + BS*len(raw1) + raw2 + terminator.
C3_AfterOverwrite ==
  (/\ Idle /\ Completed(cur) /\ ~ReqSameLine(cur) /\ ~ReqOverwrite(cur)
   /\ prev.outcome = "completed" /\ prev.overwrite) =>
    LET text1 == prev.ops[TextAt(prev.ops)].s
        raw2 == GetMessage(cur.rec)
    IN /\ Writes(cur.ops) = <<Op(46, raw2), Op(60, <<"NL">>)>>
       /\ Flat(FromText(prev.ops)) \o out
            = text1 \o Repeat("BS", Len(prev.raw)) \o raw2 \o <<"NL">>

C3_Witness ==
  /\ Idle /\ Completed(cur) /\ ~ReqSameLine(cur) /\ ~ReqOverwrite(cur)
  /\ prev.outcome = "completed" /\ prev.overwrite /\ ~prev.same_line
  /\ cur.rec.prefix = <<"p">>
  /\ Flat(prev.ops) \o out = <<"p", "a", "a", "BS", "BS", "a", "NL">>

\* C4: of two consecutive completed emit calls that both request same_line and
\* not overwrite, the second writes only its raw body, so no line terminator
\* lies between the two texts, and on_same_line is true after each.
C4_SameLineRun ==
  (/\ Idle /\ Completed(cur) /\ ReqSameLine(cur) /\ ~ReqOverwrite(cur)
   /\ prev.outcome = "completed" /\ prev.same_line /\ ~prev.overwrite) =>
    LET text1 == prev.ops[TextAt(prev.ops)].s
        raw2 == GetMessage(cur.rec)
    IN /\ Writes(cur.ops) = <<Op(46, raw2)>>
       /\ Flat(FromText(prev.ops)) \o out = text1 \o raw2
       /\ CountOf("NL", Flat(FromText(prev.ops)) \o out) = 0
       /\ cur.osl0
       /\ on_same_line

C4_Witness ==
  /\ Idle /\ Completed(cur) /\ ReqSameLine(cur) /\ ~ReqOverwrite(cur)
  /\ prev.outcome = "completed" /\ prev.same_line /\ ~prev.overwrite
  /\ cur.rec.prefix = <<"p">>
  /\ Flat(prev.ops) \o out = <<"p", "a", "a">>
  /\ Len(prev.raw) = 1

\* C5: an exception raised by a step of emit (formatting, a stream write, the
\* flush) is not propagated but handed to handleError exactly once, unless it
\* is KeyboardInterrupt or SystemExit, which is propagated and never handed
\* to handleError.
C5_ErrorRouting ==
  (Idle /\ cur.outcome # "none") =>
    /\ cur.exc = "none" => (cur.outcome = "returned" /\ cur.handled = 0)
    /\ cur.exc \in {"KeyboardInterrupt", "SystemExit"} =>
         (cur.outcome = "raised" /\ cur.handled = 0)
    /\ cur.exc \notin {"none", "KeyboardInterrupt", "SystemExit"} =>
         (cur.outcome = "returned" /\ cur.handled = 1)

C5_Witness ==
  /\ Idle
  /\ cur.exc = "OSError"
  /\ cur.handled = 1
  /\ cur.outcome = "returned"
  /\ WroteText(cur.ops)

\* C6: an emit call writes a line terminator before its text if and only if,
\* at entry, on_same_line is true, the call does not request same_line and
\* overwriting is false; the call's own overwrite request does not enter.
C6_LeadingTerminator ==
  WroteText(cur.ops) =>
    LET i == TextAt(cur.ops)
        lead == i > 1 /\ cur.ops[1].s = <<"NL">>
    IN /\ i \in {1, 2}
       /\ lead <=> (cur.osl0 /\ ~ReqSameLine(cur) /\ ~cur.ow0)
       /\ ~lead => i = 1

C6_Witness ==
  /\ WroteText(cur.ops)
  /\ cur.ops[1] = Op(38, <<"NL">>)
  /\ ReqOverwrite(cur)
  /\ cur.osl0 /\ ~cur.ow0 /\ ~ReqSameLine(cur)

C8_Original ==
  (Idle /\ cur.outcome # "none") =>
    /\ overwriting => ReqOverwrite(cur)
    /\ ~ReqOverwrite(cur) => ~overwriting

\* C8 amended: between emit calls, overwriting is true only if the most recent
\* call requested overwrite or raised before its text write succeeded, and
\* then overwriting keeps the value it had at entry; a call that does not
\* request overwrite and whose text write succeeds leaves overwriting = false.
C8_Amended ==
  (Idle /\ cur.outcome # "none") =>
    /\ overwriting => (ReqOverwrite(cur) \/ (~WroteText(cur.ops) /\ cur.ow0))
    /\ (~ReqOverwrite(cur) /\ WroteText(cur.ops)) => ~overwriting
    /\ ~WroteText(cur.ops) => overwriting = cur.ow0

C8_Witness ==
  /\ Idle
  /\ ~ReqOverwrite(cur)
  /\ cur.exc = "OSError" /\ cur.handled = 1
  /\ cur.ow0
  /\ ~WroteText(cur.ops)
  /\ overwriting

\* C9: between emit calls, whatever calls were made and wherever they raised,
\* overwriting = true implies on_same_line = true: the state
\* (on_same_line = false, overwriting = true) is not reachable.
C9_NoOverwritingOffLine ==
  Idle => (overwriting => on_same_line)

\* (true, true) reached from (true, false), itself reached from the initial
\* (false, false), by a call whose flush raised
C9_Witness ==
  /\ Idle
  /\ on_same_line /\ overwriting
  /\ cur.osl0 /\ ~cur.ow0
  /\ cur.exc # "none"

\* C10: two emit calls on one handler.  Guarded by a mutex held over the
\* whole call, every execution leaves the stream and the two fields as one of
\* the two serial orders does; unguarded, with every field read, field write
\* and stream write a step of its own, some interleaving leaves a stream or
\* fields that neither serial order produces (C10_Witness).
Fresh == [out |-> <<>>, on_same_line |-> FALSE, overwriting |-> FALSE]

Observed == [out |-> out, on_same_line |-> on_same_line, overwriting |-> overwriting]

SerialOutcomes ==
  {SerialEmit(SerialEmit(Fresh, record[1]), record[2]),
   SerialEmit(SerialEmit(Fresh, record[2]), record[1])}

BothReturned == \A t \in Threads : pc[t] = "idle" /\ call[t].outcome = "returned"

C10_MutexSerializes ==
  (useMutex /\ BothReturned) => Observed \in SerialOutcomes

C10_Witness ==
  /\ ~useMutex
  /\ BothReturned
  /\ Observed \notin SerialOutcomes

\* C11: the fields after a completed emit call depend only on the call's
\* requests, not on the fields before it: on_same_line = (same_line requested
\* or overwrite requested) and overwriting = (overwrite requested); after a
\* completed call requesting overwrite both are true.
C11_NextState ==
  (Idle /\ Completed(cur)) =>
    /\ on_same_line = (ReqSameLine(cur) \/ ReqOverwrite(cur))
    /\ overwriting = ReqOverwrite(cur)
    /\ ReqOverwrite(cur) => (on_same_line /\ overwriting)

C11_Witness ==
  /\ Idle /\ Completed(cur)
  /\ ReqOverwrite(cur) /\ ~ReqSameLine(cur)
  /\ ~cur.osl0 /\ ~cur.ow0
  /\ on_same_line /\ overwriting

\* the text of the current call begins a line: the call is the first one, or
\* the character the stream received last before the text is the line
\* terminator, be it the call's own leading one or one written earlier
OnFreshLine(c) ==
  IF TextAt(c.ops) > 1 THEN c.ops[TextAt(c.ops) - 1].s = <<"NL">>
  ELSE prev.outcome = "none" \/ c.last0 = "NL"

\* C12: a message that begins on a fresh line (the first emission, or text
\* that directly follows a line terminator, the previous call's trailing one
\* or the call's own leading one) is written as the formatted string; the
\* context information is dropped only for text continuing a line that
\* already holds output.
C12_FreshLineFormatted ==
  (WroteText(cur.ops) /\ OnFreshLine(cur)) =>
    cur.ops[TextAt(cur.ops)].s = Format(cur.rec)

\* ----------------------------------------------------------- the terminal
\* The line the cursor is on, as a sequence of cells, and the cursor column
\* (0 = first cell).  A cell holds a character and a mark telling whose it
\* is.  A printing character replaces the cell under the cursor and advances
\* the cursor, a backspace moves the cursor back by one, the line terminator
\* starts an empty line.  Lines do not wrap.
Cell(c, mark) == [ch |-> c, mark |-> mark]

PutChar(term, c, mark) ==
  IF c = "NL" THEN [cells |-> <<>>, col |-> 0]
  ELSE IF c = "BS" THEN [term EXCEPT !.col = IF @ > 0 THEN @ - 1 ELSE 0]
  ELSE [cells |-> IF term.col < Len(term.cells)
                  THEN [term.cells EXCEPT ![term.col + 1] = Cell(c, mark)]
                  ELSE Append(term.cells, Cell(c, mark)),
        col |-> term.col + 1]

RECURSIVE PutString(_, _, _)
PutString(term, s, mark) ==
  IF s = <<>> THEN term
  ELSE PutString(PutChar(term, Head(s), mark), Tail(s), mark)

\* the terminal after the stream operations ops of a call whose raw body is
\* raw; the raw body's characters carry the mark, the context before it "ctx"
RECURSIVE Show(_, _, _, _)
Show(term, ops, raw, mark) ==
  IF ops = <<>> THEN term
  ELSE LET o == Head(ops)
           n == Len(o.s) - Len(raw)
           next == IF o.line = 46
                   THEN PutString(PutString(term, SubSeq(o.s, 1, n), "ctx"),
                                  SubSeq(o.s, n + 1, Len(o.s)), mark)
                   ELSE PutString(term, o.s, "ctl")
       IN Show(next, Tail(ops), raw, mark)

\* what the line may hold, and where the cursor may be, before the calls
Terminals ==
  {[cells |-> [i \in 1..n |-> Cell("x", "old")], col |-> c] :
     n \in 0..MaxCol, c \in 0..MaxCol}

StartTerminals == {term \in Terminals : term.col <= Len(term.cells)}

\* the operations of a call before its message text
BeforeText(ops) == SubSeq(ops, 1, TextAt(ops) - 1)

\* the column at which the raw body begins, for a call with operations ops
RawStart(term, ops, raw) ==
  Show(term, BeforeText(ops), raw, "A").col + Len(ops[TextAt(ops)].s) - Len(raw)

\* C13: with the cursor column so modelled (formatted string = context
\* followed by raw body), after every completed emit call that requests
\* overwrite the cursor is at the column where the call's raw body began,
\* wherever the cursor was and whatever the line held before the call.
C13_CursorAtRawStart ==
  (Idle /\ Completed(cur) /\ ReqOverwrite(cur)) =>
    \A term \in StartTerminals :
      Show(term, Writes(cur.ops), GetMessage(cur.rec), "A").col
        = RawStart(term, cur.ops, GetMessage(cur.rec))

C13_Witness ==
  /\ Idle /\ Completed(cur) /\ ReqOverwrite(cur)
  /\ cur.rec.prefix = <<"p">>
  /\ Len(GetMessage(cur.rec)) = 2
  /\ ~cur.osl0
  /\ \E term \in StartTerminals :
       /\ term.col = 2
       /\ RawStart(term, cur.ops, GetMessage(cur.rec)) = 3
       /\ Show(term, Writes(cur.ops), GetMessage(cur.rec), "A").col = 3

\* the line after overwrite call A (prev) and the call B (cur) that follows
\* it, up to the last character B puts on that line
LineAfterAB(term) ==
  LET afterA == Show(term, Writes(prev.ops), prev.raw, "A")
      onLine == SelectSeq(cur.ops, LAMBDA o : o.line \in {38, 46, 50})
  IN Show(afterA, onLine, GetMessage(cur.rec), "B")

\* the column at which the raw body of overwrite call A began
StartOfA(term) == RawStart(term, prev.ops, prev.raw)

\* the column at which the text of B began
StartOfB(term) ==
  Show(Show(term, Writes(prev.ops), prev.raw, "A"),
       BeforeText(cur.ops), GetMessage(cur.rec), "B").col

CellsOf(term, mark) == {i \in DOMAIN term.cells : term.cells[i].mark = mark}

ABCompleted ==
  /\ Idle /\ Completed(cur)
  /\ prev.outcome = "completed" /\ prev.overwrite

\* C14 as stated: after a completed overwrite emission with raw body A
\* followed by a completed emission with raw body B, B starts at the column
\* where A started and no character of A is left on the line, for all
\* lengths of A and B.
C14_Original ==
  ABCompleted =>
    \A term \in StartTerminals :
      /\ StartOfB(term) = StartOfA(term)
      /\ CellsOf(LineAfterAB(term), "A") = {}

\* C14 amended: B starts at the column where A started; no character of A is
\* left on the line when B is at least as long as A, and when B is shorter
\* the last len(A) - len(B) characters of A are left after B.
C14_Amended ==
  ABCompleted =>
    \A term \in StartTerminals :
      LET a == Len(prev.raw)
          b == Len(GetMessage(cur.rec))
          shown == LineAfterAB(term)
      IN /\ StartOfB(term) = StartOfA(term)
         /\ cur.ops[TextAt(cur.ops)].s = GetMessage(cur.rec)
         /\ b >= a => CellsOf(shown, "A") = {}
         /\ b < a => CellsOf(shown, "A") = (StartOfA(term) + b + 1)..(StartOfA(term) + a)
         /\ CellsOf(shown, "B") = (StartOfA(term) + 1)..(StartOfA(term) + b)

C14_Witness ==
  /\ ABCompleted
  /\ Len(prev.raw) = 1
  /\ Len(GetMessage(cur.rec)) = 2
  /\ ~ReqSameLine(cur) /\ ~ReqOverwrite(cur)
  /\ \E term \in StartTerminals :
       /\ term.col = 1
       /\ LineAfterAB(term).cells = <<Cell("x", "old"), Cell("a", "B"), Cell("a", "B")>>

\* the source lines of the stream operations of a call, in order
LinesOf(ops) == [i \in DOMAIN ops |-> ops[i].line]

Opt(b, line) == IF b THEN <<line>> ELSE <<>>

\* C15: a completed emit call flushes the stream exactly once, after all its
\* writes, which come in the order [leading terminator], text, [backspaces],
\* [trailing terminator]; a call in which a step raised performs no flush.
C15_FlushLast ==
  /\ (Idle /\ Completed(cur)) =>
       /\ LinesOf(cur.ops)
            = Opt(cur.osl0 /\ ~ReqSameLine(cur) /\ ~cur.ow0, 38) \o <<46>>
              \o Opt(ReqOverwrite(cur), 50)
              \o Opt(~ReqSameLine(cur) /\ ~ReqOverwrite(cur), 60) \o <<62>>
       /\ cur.ops[Len(cur.ops)] = Op(62, <<>>)
       /\ Len(Writes(cur.ops)) = Len(cur.ops) - 1
       /\ Flat(Writes(cur.ops)) = out
  /\ cur.exc # "none" => Writes(cur.ops) = cur.ops

C15_Witness ==
  /\ Idle /\ Completed(cur)
  /\ LinesOf(cur.ops) = <<38, 46, 50, 62>>
  /\ out = <<"NL", "a", "BS">>

\* the record with every attribute that is present given the value "true"
Truthy(r) ==
  [r EXCEPT !.same_line = IF @ = "absent" THEN @ ELSE "true",
            !.overwrite = IF @ = "absent" THEN @ ELSE "true"]

Without(r, name) == [r EXCEPT ![name] = "absent"]

\* stream and fields at entry to the current call
AtEntry == [out |-> <<>>, on_same_line |-> cur.osl0, overwriting |-> cur.ow0]

TerminatorWritten ==
  \E l \in {38, 60} : cur'.ops = Append(cur.ops, Op(l, <<"NL">>))

\* C17: across any sequence of emit calls, including calls in which a write
\* or the flush raises, the stream never receives two line terminators with
\* no message-text write between them: when a terminator is written, the
\* last write before it was a text (or backspace) write.
C17_NoBlankLine ==
  [][TerminatorWritten => tail.kind = "text"]_vars

\* the two fields as the second instance reads them
OtherFields ==
  <<Lookup(other.dict, "on_same_line"), Lookup(other.dict, "overwriting")>>

\* C18: the fields are per instance although their defaults are class
\* attributes: a step of emit on one handler leaves the fields of the other
\* handler as they were, and a newly constructed handler reads
\* (false, false) whatever the handlers before it have emitted.
C18_PerInstance ==
  [][/\ (pc' # pc /\ other.alive) => (other'.alive /\ OtherFields' = OtherFields)
     /\ pc' = pc => (on_same_line' = on_same_line /\ overwriting' = overwriting)
     /\ (other'.alive /\ DOMAIN other'.dict = {}) => OtherFields' = <<FALSE, FALSE>>
    ]_vars

C18_Witness ==
  /\ Idle /\ Completed(cur)
  /\ other.alive
  /\ OtherFields = <<TRUE, TRUE>>
  /\ cur.osl0
  /\ ~on_same_line /\ ~overwriting
  /\ prev.outcome = "completed"

====
